---- MODULE Spec2Model ----
(***************************************************************************)
(* Model of plane_seg_ros/src/plane_seg_ri.cpp: the RobotInterface node.   *)
(*                                                                         *)
(* The node caches the last robot pose (robotPoseCallBack), and for every  *)
(* incoming cloud (pointCloudCallback, elevationMapCallback) derives the   *)
(* sensor origin and look direction from that pose, runs the BlockFitter,  *)
(* stores its Result in result_, and publishes a look pose, the received   *)
(* cloud, the hulls as one coloured cloud and the hulls as a line list.    *)
(*                                                                         *)
(* ros::spin() (main) is the single-threaded spinner: one callback runs to *)
(* completion before the next starts, so each callback is one action.      *)
(*                                                                         *)
(* Numbers.  Lengths are integers.  Angles are counted in quarter turns    *)
(* and the trigonometric functions are the exact real ones on those        *)
(* angles.  A colour channel is an integer count of 1/ColorDen, so that    *)
(* k/255 and 0.5 are both integers.  A normalized vector v/|v| is kept as  *)
(* the pair [num |-> v, den2 |-> |v|^2].                                   *)
(*                                                                         *)
(* Not modelled: processFromFile (the run_test_program branch of main) and *)
(* printResultAsJson (never called).                                       *)
(***************************************************************************)
EXTENDS Integers, Sequences, FiniteSets, TLC

VARIABLES
  last_robot_pose_,  \* RobotInterface::last_robot_pose_ (Eigen::Isometry3d)
  result_,           \* RobotInterface::result_ (BlockFitter::Result)
  pc,                \* "spin": in ros::spin(); "terminated": std::terminate ran
  delivered,         \* history: the last pose message handed to robotPoseCallBack
  call,              \* history: the arguments of the most recent callback
  fitterLog,         \* history: the BlockFitter runs of the most recent callback
  markerReads,       \* history: the hull reads of publishHullsAsMarkers in that callback
  published          \* history: the messages the most recent callback published, in order

vars == <<last_robot_pose_, result_, pc, delivered, call, fitterLog, markerReads, published>>

----------------------------------------------------------------------------
(* Bounds of the model *)

MaxHull == 3       \* largest number of boundary points of a hull
MaxBlocks == 2     \* largest number of blocks of a freely shaped Result
MaxCloud == 1      \* largest number of points of an incoming cloud
MaxDir == 2        \* largest coordinate of a look direction given directly

----------------------------------------------------------------------------
(* Vectors *)

Dot(a, b) == a[1] * b[1] + a[2] * b[2] + a[3] * b[3]

Cross(a, b) ==
  << a[2] * b[3] - a[3] * b[2],
     a[3] * b[1] - a[1] * b[3],
     a[1] * b[2] - a[2] * b[1] >>

UnitZ == <<0, 0, 1>>

ZeroVec == <<0, 0, 0>>

\* What Eigen's normalized() returns for a vector of norm 0 depends on the
\* Eigen release the node is built with: the vector unchanged ("zero") or
\* v / 0, a vector of NaN ("nan").
NormOfZero == {"zero", "nan"}

\* The outcomes that differ for the frame of a look direction.
NormChoices(lookDir) ==
  IF Cross(lookDir, UnitZ) = ZeroVec THEN NormOfZero ELSE {"zero"}

\* The vector v / |v| as [num, den2] with den2 = |v|^2; NaN is 0/0.
normalized(v, nz) ==
  IF Dot(v, v) > 0 THEN [num |-> v, den2 |-> Dot(v, v)]
  ELSE IF nz = "zero" THEN [num |-> v, den2 |-> 1]
  ELSE [num |-> v, den2 |-> 0]

----------------------------------------------------------------------------
(* The palette *)

\* One unit of a colour channel is ColorDen counts.
ColorDen == 2 * 255

\* k / 255.0
N255(k) == 2 * k

\* 0.5
Half == ColorDen \div 2

\* 1.0
One == ColorDen

colors_ ==
  << N255(51),  N255(160), N255(44),
     N255(166), N255(206), N255(227),
     N255(178), N255(223), N255(138),
     N255(31),  N255(120), N255(180),
     N255(251), N255(154), N255(153),
     N255(227), N255(26),  N255(28),
     N255(253), N255(191), N255(111),
     N255(106), N255(61),  N255(154),
     N255(255), N255(127), N255(0),
     N255(202), N255(178), N255(214),
     One,  0,    0,
     0,    One,  0,
     0,    0,    One,
     One,  One,  0,
     One,  0,    One,
     0,    One,  One,
     Half, One,  0,
     One,  Half, 0,
     Half, 0,    One,
     One,  0,    Half,
     0,    Half, One,
     0,    One,  Half,
     One,  Half, Half,
     Half, One,  Half,
     Half, Half, One,
     Half, Half, One,
     Half, One,  Half,
     Half, Half, One >>

\* int nColor = i % (colors_.size() / 3), i counted from 0
nColor(i) == i % (Len(colors_) \div 3)

\* double r = colors_[nColor * 3 + c] * 255.0, for c = 0, 1, 2: the channels
\* on the 0..255 scale, in counts of 1/ColorDen
rgb255(i) ==
  [c \in 1..3 |-> colors_[nColor(i) * 3 + c] * 255]

\* a double of 0..255 stored in a uint8_t field: the fraction is dropped
ToUint8(d) == (d \div ColorDen) % 256

----------------------------------------------------------------------------
(* Poses *)

\* A quaternion (w, x, y, z) / sqrt(s) with integer w, x, y, z: the unit
\* quaternions of the rotations by multiples of a quarter turn about one
\* coordinate axis or by a half turn about a face diagonal.
UnitQuats ==
  { q \in [w : -1..1, x : -1..1, y : -1..1, z : -1..1, s : 1..2] :
      q.w * q.w + q.x * q.x + q.y * q.y + q.z * q.z = q.s }

Quat(w, x, y, z, s) == [w |-> w, x |-> x, y |-> y, z |-> z, s |-> s]

\* Eigen: Quaterniond::toRotationMatrix(), rows first
toRotationMatrix(q) ==
  << << 1 - (2 * (q.y * q.y + q.z * q.z)) \div q.s,
        (2 * (q.x * q.y - q.w * q.z)) \div q.s,
        (2 * (q.x * q.z + q.w * q.y)) \div q.s >>,
     << (2 * (q.x * q.y + q.w * q.z)) \div q.s,
        1 - (2 * (q.x * q.x + q.z * q.z)) \div q.s,
        (2 * (q.y * q.z - q.w * q.x)) \div q.s >>,
     << (2 * (q.x * q.z - q.w * q.y)) \div q.s,
        (2 * (q.y * q.z + q.w * q.x)) \div q.s,
        1 - (2 * (q.x * q.x + q.y * q.y)) \div q.s >> >>

\* Eigen: Quaterniond(Matrix3d).  Of the two quaternions q and -q of the
\* rotation it returns the one with w > 0 when the trace is positive, and
\* otherwise the one whose component of the largest diagonal entry (the first
\* such entry) is positive.
QuaternionOfMatrix(m) ==
  LET t == m[1][1] + m[2][2] + m[3][3]
      i0 == IF m[2][2] > m[1][1] THEN 2 ELSE 1
      i == IF m[3][3] > m[i0][i0] THEN 3 ELSE i0
      xyz(q) == <<q.x, q.y, q.z>>
  IN CHOOSE q \in UnitQuats :
       /\ toRotationMatrix(q) = m
       /\ IF t > 0 THEN q.w > 0 ELSE xyz(q)[i] > 0

Identity == [translation |-> ZeroVec, linear |-> toRotationMatrix(Quat(1, 0, 0, 0, 1))]

\* tf::poseMsgToEigen(msg->pose.pose, e):
\*   e = Translation3d(position) * Quaterniond(orientation)
poseMsgToEigen(m) ==
  [translation |-> m.position, linear |-> toRotationMatrix(m.orientation)]

\* The pose messages of the model: a position and a unit quaternion.
Positions == {<<0, 0, 0>>, <<1, 2, 3>>}

Orientations ==
  { Quat(1, 0, 0, 0, 1),     \* no rotation
    Quat(1, 0, 0, 1, 2),     \* yaw  +1 quarter turn
    Quat(0, 0, 0, 1, 1),     \* yaw   2 quarter turns
    Quat(-1, 0, 0, 1, 2),    \* yaw  -1 quarter turn (w < 0)
    Quat(1, 0, 1, 0, 2),     \* pitch +1 quarter turn
    Quat(1, 0, -1, 0, 2),    \* pitch -1 quarter turn
    Quat(1, 1, 0, 0, 2) }    \* roll +1 quarter turn

PoseMsgs == [position : Positions, orientation : Orientations]

NoPose == [position |-> ZeroVec, orientation |-> Quat(1, 0, 0, 0, 1)]

----------------------------------------------------------------------------
(* Angles, in quarter turns *)

\* atan2(y, x) for y, x in {-1, 0, 1} with at most one of them not 0
Atan2(y, x) ==
  CASE y = 0 /\ x >= 0 -> 0
    [] y = 0 /\ x < 0 -> 2
    [] y > 0 /\ x = 0 -> 1
    [] y < 0 /\ x = 0 -> -1

\* asin(v) for v in {-1, 0, 1}
Asin(v) == CASE v = 0 -> 0 [] v = 1 -> 1 [] v = -1 -> -1

\* The cosine and sine of a whole number of quarter turns are taken exactly:
\* 0 where the double cos(M_PI / 2) is 6.1e-17.
Cos(a) == CASE a % 4 = 0 -> 1 [] a % 4 = 2 -> -1 [] OTHER -> 0

Sin(a) == CASE a % 4 = 1 -> 1 [] a % 4 = 3 -> -1 [] OTHER -> 0

\* quat_to_euler(q, roll, pitch, yaw)
quat_to_euler(q) ==
  LET q0 == q.w
      q1 == q.x
      q2 == q.y
      q3 == q.z
  IN [roll |-> Atan2((2 * (q0 * q1 + q2 * q3)) \div q.s,
                     1 - (2 * (q1 * q1 + q2 * q2)) \div q.s),
      pitch |-> Asin((2 * (q0 * q2 - q3 * q1)) \div q.s),
      yaw |-> Atan2((2 * (q0 * q3 + q1 * q2)) \div q.s,
                    1 - (2 * (q2 * q2 + q3 * q3)) \div q.s)]

\* convertRobotPoseToSensorLookDir(robot_pose)
convertRobotPoseToSensorLookDir(robot_pose) ==
  LET quat == QuaternionOfMatrix(robot_pose.linear)
      e == quat_to_euler(quat)
      yaw == e.yaw
      pitch == 0 - e.pitch
      xDir == Cos(yaw) * Cos(pitch)
      yDir == Sin(yaw) * Cos(pitch)
      zDir == Sin(pitch)
  IN <<xDir, yDir, zDir>>

----------------------------------------------------------------------------
(* Clouds and the BlockFitter *)

\* An incoming cloud of n points.
Cloud(n) == [k \in 1..n |-> <<k, 0, 0>>]

Clouds == {Cloud(n) : n \in 0..MaxCloud}

\* The j-th (from 1) boundary point of a hull at height z.
Corner(j, z) ==
  << ((j \div 2) % 2) + 2 * ((j - 1) \div 4), ((j - 1) \div 2) % 2, z >>

\* A block whose hull has n boundary points.  mSize and mPose are read only
\* by printResultAsJson.
Block(n, z) == [mHull |-> [j \in 1..n |-> Corner(j, z)]]

\* The numbers of blocks of the Results of the model: up to MaxBlocks, and one
\* more than the palette has colours.
BlockCounts == (0..MaxBlocks) \cup {Len(colors_) \div 3 + 1}

\* The Results of the model: hull i (from 1) has 1 + (i + k) % MaxHull points.
EngineResults ==
  { [i \in 1..nb |-> Block(1 + ((i + k) % MaxHull), i - 1)] :
      nb \in BlockCounts, k \in 0..(MaxHull - 1) }

\* BlockFitter::go(): returns a Result or throws.  A cloud without points
\* has no plane, so the Result it returns for one has no block.
EngineOutcomes(inCloud) ==
  { [threw |-> FALSE, result |-> r] :
      r \in IF inCloud = << >> THEN {<< >>} ELSE EngineResults }
    \cup { [threw |-> TRUE, result |-> << >>] }

\* Results whose hulls may have no boundary point: hull i (from 1) has
\* (i + k) % (MaxHull + 1) points.
AnyHullResults ==
  { [i \in 1..nb |-> Block((i + k) % (MaxHull + 1), i - 1)] :
      nb \in BlockCounts, k \in 0..MaxHull }

\* BlockFitter::go() when a block's hull may be empty.
AnyHullOutcomes ==
  { [threw |-> FALSE, result |-> r] : r \in AnyHullResults }
    \cup { [threw |-> TRUE, result |-> << >>] }

\* The fitter as processCloud sets it up before go().
Fitter(inCloud, origin, lookDir) ==
  [ mOrigin |-> origin, mLookDir |-> lookDir, mCloud |-> inCloud,
    mDebug |-> TRUE, mRemoveGround |-> FALSE, mMaxAngleOfPlaneSegmenter |-> 10 ]

----------------------------------------------------------------------------
(* Publishing *)

Time(secs, nsecs) == <<secs, nsecs>>

RECURSIVE CloudPoints(_, _, _)
\* publishHullsAsCloud, the loop over the points of cloud_rgb, j counted from 0
CloudPoints(cloud_rgb, rgb, j) ==
  IF j < Len(cloud_rgb)
  THEN CloudPoints(
         [cloud_rgb EXCEPT ![j + 1] =
            [xyz |-> cloud_rgb[j + 1].xyz,
             r |-> ToUint8(rgb[1]), g |-> ToUint8(rgb[2]), b |-> ToUint8(rgb[3])]],
         rgb, j + 1)
  ELSE cloud_rgb

\* pcl::copyPointCloud from PointXYZ to PointXYZRGB: the colour is left 0
copyPointCloud(cloud) ==
  [j \in 1..Len(cloud) |-> [xyz |-> cloud[j], r |-> 0, g |-> 0, b |-> 0]]

RECURSIVE CombinedCloud_overwrites(_, _, _)
\* Mutant of CombinedCloud: combined_cloud = *cloud_rgb in place of +=.
CombinedCloud_overwrites(cloud_ptrs, i, combined_cloud) ==
  IF i < Len(cloud_ptrs)
  THEN CombinedCloud_overwrites(cloud_ptrs, i + 1,
         CloudPoints(copyPointCloud(cloud_ptrs[i + 1]), rgb255(i), 0))
  ELSE combined_cloud

RECURSIVE CombinedCloud(_, _, _)
\* publishHullsAsCloud, the loop over cloud_ptrs, i counted from 0
CombinedCloud(cloud_ptrs, i, combined_cloud) ==
  IF i < Len(cloud_ptrs)
  THEN CombinedCloud(cloud_ptrs, i + 1,
         combined_cloud \o CloudPoints(copyPointCloud(cloud_ptrs[i + 1]), rgb255(i), 0))
  ELSE combined_cloud

publishHullsAsCloud(cloud_ptrs, secs, nsecs) ==
  [ topic |-> "hull_cloud", stamp |-> Time(secs, nsecs), frame_id |-> "odom",
    points |-> CombinedCloud(cloud_ptrs, 0, << >>) ]

\* point_color with r, g, b as computed and a = 1.0
ColorRGBA(rgb) == [r |-> rgb[1], g |-> rgb[2], b |-> rgb[3], a |-> One]

\* Reading points[k] of a vector without elements is undefined behaviour.
\* What it does: the process dies of a segmentation fault (segv), or the
\* reads of points[0] and of points[size - 1] give some values.
Garbage == {ZeroVec, <<7, 7, 7>>}

OutOfRange ==
  { [segv |-> TRUE, first |-> ZeroVec, last |-> ZeroVec] }
    \cup [segv : {FALSE}, first : Garbage, last : Garbage]

\* The outcomes that differ for the hulls of cloud_ptrs.
OutOfRangeChoices(cloud_ptrs) ==
  IF \E i \in 1..Len(cloud_ptrs) : Len(cloud_ptrs[i]) = 0
  THEN OutOfRange
  ELSE { [segv |-> FALSE, first |-> ZeroVec, last |-> ZeroVec] }

\* marker.colors.push_back(point_color); marker.points.push_back(point)
PushBack(marker, point, point_color) ==
  [marker EXCEPT !.colors = Append(@, point_color), !.points = Append(@, point)]

\* cloud_ptrs[i]->points[k] is read, k counted from 0: noted with the size of
\* the vector.  The size_t index 0 - 1 is written -1.
Read(marker, points, k) ==
  [marker EXCEPT !.reads = @ \cup {[size |-> Len(points), index |-> k]}]

RECURSIVE HullEdges(_, _, _, _)
\* publishHullsAsMarkers, the loop over j (from 1) of one hull
HullEdges(points, rgb, j, marker) ==
  IF j < Len(points)
  THEN HullEdges(points, rgb, j + 1,
         PushBack(PushBack(Read(Read(marker, points, j - 1), points, j),
                           points[j], ColorRGBA(rgb)),
                  points[j + 1], ColorRGBA(rgb)))
  ELSE marker

\* Mutant of StartToEnd: the closing line is left out.
StartToEnd_omitted(points, rgb, marker, oob) == marker

\* publishHullsAsMarkers, the "start to end line" of one hull:
\* points[0], then points[size - 1]
StartToEnd(points, rgb, marker, oob) ==
  LET read == Read(Read(marker, points, 0), points, Len(points) - 1)
  IN IF Len(points) > 0
     THEN PushBack(PushBack(read, points[1], ColorRGBA(rgb)),
                   points[Len(points)], ColorRGBA(rgb))
     ELSE IF oob.segv
     THEN [Read(marker, points, 0) EXCEPT !.segv = TRUE]
     ELSE PushBack(PushBack(read, oob.first, ColorRGBA(rgb)),
                   oob.last, ColorRGBA(rgb))

NoLines == [points |-> << >>, colors |-> << >>, reads |-> {}, segv |-> FALSE]

RECURSIVE MarkerLoop(_, _, _, _)
\* publishHullsAsMarkers, the loop over cloud_ptrs, i counted from 0; `lines`
\* is marker.points and marker.colors, to which the pushes of hull i are added
MarkerLoop(cloud_ptrs, i, lines, oob) ==
  IF i < Len(cloud_ptrs) /\ ~lines.segv
  THEN LET pushed == StartToEnd(cloud_ptrs[i + 1], rgb255(i),
                       HullEdges(cloud_ptrs[i + 1], rgb255(i), 1, NoLines), oob)
       IN MarkerLoop(cloud_ptrs, i + 1,
            [points |-> lines.points \o pushed.points,
             colors |-> lines.colors \o pushed.colors,
             reads |-> lines.reads \cup pushed.reads,
             segv |-> pushed.segv],
            oob)
  ELSE lines

\* publishHullsAsMarkers: the message it publishes unless the loop died
\* (segv), and the reads of the loop
publishHullsAsMarkers(cloud_ptrs, secs, nsecs, oob) ==
  LET lines == MarkerLoop(cloud_ptrs, 0, NoLines, oob)
  IN [ published |->
         IF lines.segv THEN << >>
         ELSE << [ topic |-> "hull_markers", stamp |-> Time(secs, nsecs),
                   frame_id |-> "odom", ns |-> "hull lines", id |-> 0,
                   type |-> "LINE_LIST", action |-> "ADD",
                   points |-> lines.points, colors |-> lines.colors,
                   frame_locked |-> TRUE ] >>,
       reads |-> lines.reads,
       segv |-> lines.segv ]

\* publishResult, the conversion of the blocks to a vector of point clouds
CloudPtrs(mBlocks) ==
  [i \in 1..Len(mBlocks) |->
     [j \in 1..Len(mBlocks[i].mHull) |-> mBlocks[i].mHull[j]]]

\* Mutant of publishResult: the hulls are taken from result_ as it was when
\* the callback began.
publishResult_stale(result, oob) ==
  LET cloud_ptrs == CloudPtrs(result_)
      markers == publishHullsAsMarkers(cloud_ptrs, 0, 0, oob)
  IN [markers EXCEPT
        !.published = << publishHullsAsCloud(cloud_ptrs, 0, 0) >> \o @]

\* publishResult(): the messages it publishes, in order, with the reads and
\* the end of publishHullsAsMarkers
publishResult(result, oob) ==
  LET cloud_ptrs == CloudPtrs(result)
      markers == publishHullsAsMarkers(cloud_ptrs, 0, 0, oob)
  IN [markers EXCEPT
        !.published = << publishHullsAsCloud(cloud_ptrs, 0, 0) >> \o @]

----------------------------------------------------------------------------
(* processCloud *)

\* Mutant of LookFrame: ry = rx.cross(rz).
LookFrame_flipped(lookDir, nz) ==
  LET rz == lookDir
      rx == Cross(rz, UnitZ)
      ry == Cross(rx, rz)
  IN << normalized(rx, nz), normalized(ry, nz), normalized(rz, nz) >>

\* processCloud, the columns of `rotation`
LookFrame(lookDir, nz) ==
  LET rz == lookDir
      rx == Cross(rz, UnitZ)
      ry == Cross(rz, rx)
  IN << normalized(rx, nz), normalized(ry, nz), normalized(rz, nz) >>

\* processCloud, the message published on look_pose_pub_; the orientation is
\* carried as the columns of the rotation it is converted from
LookPose(origin, lookDir, nz) ==
  [ topic |-> "look_pose", stamp |-> Time(0, 0), frame_id |-> "odom",
    position |-> origin, rotation |-> LookFrame(lookDir, nz) ]

\* processCloud, the message published on received_cloud_pub_
ReceivedCloud(inCloud) ==
  [ topic |-> "received_cloud", stamp |-> Time(0, 0), frame_id |-> "odom",
    points |-> inCloud ]

\* processCloud with the outcomes go() can have.  An exception leaving
\* fitter.go() is caught nowhere: not in processCloud, not in the callbacks,
\* not in main around ros::spin().
processCloudWith(inCloud, origin, lookDir, outcomes) ==
  \E go \in outcomes, nz \in NormChoices(lookDir) :
    \E oob \in OutOfRangeChoices(CloudPtrs(go.result)) :
      /\ call' = [inCloud |-> inCloud, origin |-> origin, lookDir |-> lookDir]
      /\ fitterLog' = << [fitter |-> Fitter(inCloud, origin, lookDir), go |-> go] >>
      /\ IF go.threw
         THEN /\ pc' = "terminated"
              /\ published' = << >>
              /\ markerReads' = {}
              /\ UNCHANGED result_
         ELSE /\ result_' = go.result
              /\ \E hulls \in {publishResult(result_', oob)} :
                    /\ published' =
                         << LookPose(origin, lookDir, nz), ReceivedCloud(inCloud) >>
                           \o hulls.published
                    /\ markerReads' = hulls.reads
                    /\ pc' = IF hulls.segv THEN "terminated" ELSE pc
      /\ UNCHANGED <<last_robot_pose_, delivered>>

processCloud(inCloud, origin, lookDir) ==
  processCloudWith(inCloud, origin, lookDir, EngineOutcomes(inCloud))

----------------------------------------------------------------------------
(* The callbacks *)

NoCall == [inCloud |-> << >>, origin |-> ZeroVec, lookDir |-> ZeroVec]

\* Mutant of robotPoseCallBack: only the translation of the pose is stored.
robotPoseCallBack_translationOnly(msg) ==
  /\ pc = "spin"
  /\ last_robot_pose_' = [last_robot_pose_ EXCEPT !.translation = msg.position]
  /\ delivered' = msg
  /\ call' = NoCall
  /\ fitterLog' = << >>
  /\ markerReads' = {}
  /\ published' = << >>
  /\ UNCHANGED <<result_, pc>>

robotPoseCallBack(msg) ==
  /\ pc = "spin"
  /\ last_robot_pose_' = poseMsgToEigen(msg)
  /\ delivered' = msg
  /\ call' = NoCall
  /\ fitterLog' = << >>
  /\ markerReads' = {}
  /\ published' = << >>
  /\ UNCHANGED <<result_, pc>>

\* msg is the cloud the grid map's "elevation" layer converts to
elevationMapCallback(msg) ==
  /\ pc = "spin"
  /\ LET inCloud == msg
         origin == last_robot_pose_.translation
         lookDir == convertRobotPoseToSensorLookDir(last_robot_pose_)
     IN processCloud(inCloud, origin, lookDir)

pointCloudCallback(msg) ==
  /\ pc = "spin"
  /\ LET inCloud == msg
         origin == last_robot_pose_.translation
         lookDir == convertRobotPoseToSensorLookDir(last_robot_pose_)
     IN processCloud(inCloud, origin, lookDir)

\* The constructor, then main up to ros::spin()
Init ==
  /\ last_robot_pose_ = Identity
  /\ result_ = << >>
  /\ pc = "spin"
  /\ delivered = NoPose
  /\ call = NoCall
  /\ fitterLog = << >>
  /\ markerReads = {}
  /\ published = << >>

Next ==
  \/ \E msg \in PoseMsgs : robotPoseCallBack(msg)
  \/ \E msg \in Clouds : elevationMapCallback(msg)
  \/ \E msg \in Clouds : pointCloudCallback(msg)

Spec == Init /\ [][Next]_vars

----------------------------------------------------------------------------
(* processCloud called with given arguments *)

Dirs == { <<x, y, z>> : x \in -MaxDir..MaxDir, y \in -MaxDir..MaxDir, z \in -MaxDir..MaxDir }

InitDirect ==
  /\ last_robot_pose_ = Identity
  /\ result_ = << >>
  /\ pc = "direct"
  /\ delivered = NoPose
  /\ call \in [inCloud : {Cloud(1)}, origin : {<<1, 2, 3>>}, lookDir : Dirs]
  /\ fitterLog = << >>
  /\ markerReads = {}
  /\ published = << >>

directCall ==
  /\ pc = "direct"
  /\ processCloud(call.inCloud, call.origin, call.lookDir)

NextDirect == directCall

SpecDirect == InitDirect /\ [][NextDirect]_vars

----------------------------------------------------------------------------
(* processCloud called when the fitter may return hulls without points *)

InitAnyHull ==
  /\ last_robot_pose_ = Identity
  /\ result_ = << >>
  /\ pc = "direct"
  /\ delivered = NoPose
  /\ call \in [inCloud : {Cloud(1)}, origin : Positions,
               lookDir : {<<1, 0, 0>>, <<0, 1, 0>>}]
  /\ fitterLog = << >>
  /\ markerReads = {}
  /\ published = << >>

anyHullCall ==
  /\ pc = "direct"
  /\ processCloudWith(call.inCloud, call.origin, call.lookDir, AnyHullOutcomes)

NextAnyHull == anyHullCall

SpecAnyHull == InitAnyHull /\ [][NextAnyHull]_vars

----------------------------------------------------------------------------
(* Properties *)

\* The messages of one topic among those the most recent callback published.
Msgs(topic) == SelectSeq(published, LAMBDA m : m.topic = topic)

\* The most recent callback ran the fitter and go() returned.
Returned == fitterLog # << >> /\ ~fitterLog[1].go.threw

\* Point p is a boundary point of block i (from 1) of `result`.
OnHull(p, result, i) == \E j \in 1..Len(result[i].mHull) : result[i].mHull[j] = p

\* The entries of sequence `seq` that satisfy Test, in order.
Only(seq, Test(_)) == SelectSeq(seq, Test)

\* The line segments of a LINE_LIST marker: its points taken two by two.
Segments(m) ==
  [s \in 1..(Len(m.points) \div 2) |-> <<m.points[2 * s - 1], m.points[2 * s]>>]

\* The palette entry of block i0 (from 0), taking 28 as the palette's size.
PaletteEntry(i0) == [c \in 1..3 |-> colors_[3 * (i0 % 28) + c]]

\* The 8-bit channel `byte` is the channel value `entry` on the 0..255 scale.
Is8Bit(byte, entry) ==
  /\ byte * ColorDen <= 255 * entry
  /\ 255 * entry < (byte + 1) * ColorDen

\* C1: every point of hull i in the combined cloud and every line-segment
\* endpoint of hull i in the line list carries the palette entry of index
\* i mod 28: the cloud point as 8-bit channels, the endpoint as a ColorRGBA
\* whose channels, like its alpha of 1.0, are on the 0..1 scale.
C1_HullColorIsPaletteEntry ==
  Returned =>
    /\ Len(colors_) = 3 * 28
    /\ \A i \in 1..Len(result_) :
         LET e == PaletteEntry(i - 1)
         IN /\ \A c \in 1..Len(Msgs("hull_cloud")) :
                 \A k \in 1..Len(Msgs("hull_cloud")[c].points) :
                   LET pt == Msgs("hull_cloud")[c].points[k]
                   IN OnHull(pt.xyz, result_, i) =>
                        /\ Is8Bit(pt.r, e[1])
                        /\ Is8Bit(pt.g, e[2])
                        /\ Is8Bit(pt.b, e[3])
            /\ \A c \in 1..Len(Msgs("hull_markers")) :
                 LET m == Msgs("hull_markers")[c]
                 IN \A k \in 1..Len(m.points) :
                      OnHull(m.points[k], result_, i) =>
                        m.colors[k] = [r |-> e[1], g |-> e[2], b |-> e[3], a |-> One]

\* C2: a hull of exactly 1 boundary point has 0 line segments in the line
\* list and exactly 1 point in the combined cloud.
C2_OnePointHullHasNoSegment ==
  Returned =>
    \A i \in 1..Len(result_) :
      Len(result_[i].mHull) = 1 =>
        /\ \A c \in 1..Len(Msgs("hull_markers")) :
             Only(Msgs("hull_markers")[c].points,
                  LAMBDA p : OnHull(p, result_, i)) = << >>
        /\ \A c \in 1..Len(Msgs("hull_cloud")) :
             Len(Only(Msgs("hull_cloud")[c].points,
                      LAMBDA pt : OnHull(pt.xyz, result_, i))) = 1

\* The n segments of a closed hull: (b[j-1], b[j]) for j = 1..n-1, then
\* (b[0], b[n-1]).
ClosedLoop(b) ==
  [s \in 1..Len(b) |-> IF s < Len(b) THEN <<b[s], b[s + 1]>> ELSE <<b[1], b[Len(b)]>>]

\* C3: for every hull of n >= 2 boundary points the line list holds exactly
\* the n segments of its closed loop, in that order, and the segments of hull
\* i all come before those of hull i + 1.
C3_ClosedLoopPerHull ==
  Returned =>
    \A c \in 1..Len(Msgs("hull_markers")) :
      LET m == Msgs("hull_markers")[c]
          segs == Segments(m)
          Of(i, s) == OnHull(segs[s][1], result_, i) /\ OnHull(segs[s][2], result_, i)
      IN /\ Len(m.points) = 2 * Len(segs)
         /\ \A i \in 1..Len(result_) :
              Len(result_[i].mHull) >= 2 =>
                Only(segs, LAMBDA sg : OnHull(sg[1], result_, i) /\ OnHull(sg[2], result_, i))
                  = ClosedLoop(result_[i].mHull)
         /\ \A i \in 1..(Len(result_) - 1) :
              \A s, t \in 1..Len(segs) : (Of(i, s) /\ Of(i + 1, t)) => s < t

\* C3 witness: a line list was published for a Result whose first hull has 2
\* points and whose second hull has 3.
C3_Witness ==
  /\ Returned
  /\ Len(Msgs("hull_markers")) = 1
  /\ Len(result_) >= 2
  /\ Len(result_[1].mHull) = 2
  /\ Len(result_[2].mHull) = 3

\* C4: processCloud with an empty cloud aborts before the fitter is run and
\* leaves result_ as it was.
C4_EmptyCloudAbortsBeforeFitter ==
  [][ (elevationMapCallback(Cloud(0)) \/ pointCloudCallback(Cloud(0)))
        => (fitterLog' = << >> /\ result_' = result_) ]_vars

\* C5: when the fitter throws during processCloud, result_ keeps its value, no
\* hull output is published, and the node is still running.
C5_FitterFailureIsSurvived ==
  [][ (fitterLog' # << >> /\ fitterLog'[1].go.threw)
        => /\ result_' = result_
           /\ Msgs("hull_cloud")' = << >>
           /\ Msgs("hull_markers")' = << >>
           /\ pc' # "terminated" ]_vars

\* The look direction of a pose message: what its rotation turns the forward
\* axis (1, 0, 0) into, the first column of the rotation matrix.
Forward(orientation) ==
  LET m == toRotationMatrix(orientation) IN <<m[1][1], m[2][1], m[3][1]>>

\* C6: the origin and the look direction given to the fitter in one cycle both
\* come from one pose, the last one delivered before the cycle began (the
\* identity if none was).
C6_OriginAndLookDirFromLastPose ==
  fitterLog # << >> =>
    /\ fitterLog[1].fitter.mOrigin = delivered.position
    /\ fitterLog[1].fitter.mLookDir = Forward(delivered.orientation)

\* C6 witness: a cloud was processed after a pose with a translation and a
\* rotation was delivered.
C6_Witness ==
  /\ fitterLog # << >>
  /\ delivered.position = <<1, 2, 3>>
  /\ delivered.orientation = Quat(1, 0, 0, 1, 2)
  /\ fitterLog[1].fitter.mLookDir = <<0, 1, 0>>

\* Vector d is along the world up axis (0, 0, 1).
AlongUp(d) == d[1] = 0 /\ d[2] = 0 /\ d[3] # 0

\* The normalized vector n has norm 1.
IsUnit(n) == n.den2 > 0 /\ Dot(n.num, n.num) = n.den2

\* C7: when the look direction is along the world up axis no look pose is
\* published from the undefined x axis: none is published, or its x axis is a
\* unit vector put in its place.
C7_DegenerateFrameIsSignaled ==
  AlongUp(call.lookDir) =>
    \A c \in 1..Len(Msgs("look_pose")) : IsUnit(Msgs("look_pose")[c].rotation[1])

\* The number of boundary points of the blocks before block i (from 1).
RECURSIVE PointsBefore(_, _)
PointsBefore(result, i) ==
  IF i <= 1 THEN 0 ELSE PointsBefore(result, i - 1) + Len(result[i - 1].mHull)

\* C8: the combined cloud holds exactly the boundary points of all blocks,
\* once each, block after block and in each block's boundary order.
C8_CombinedCloudIsAllHulls ==
  Returned =>
    \A c \in 1..Len(Msgs("hull_cloud")) :
      LET pts == Msgs("hull_cloud")[c].points
      IN /\ Len(pts) = PointsBefore(result_, Len(result_) + 1)
         /\ \A i \in 1..Len(result_) :
              \A j \in 1..Len(result_[i].mHull) :
                pts[PointsBefore(result_, i) + j].xyz = result_[i].mHull[j]

\* C8 witness: a combined cloud was published for a Result of two blocks of
\* 2 and 3 boundary points.
C8_Witness ==
  /\ Returned
  /\ Len(Msgs("hull_cloud")) = 1
  /\ Len(result_) = 2
  /\ Len(result_[1].mHull) = 2
  /\ Len(result_[2].mHull) = 3
  /\ Len(Msgs("hull_cloud")[1].points) = 5

\* C9: a processCloud cycle runs the fitter once, with the cycle's origin and
\* look direction; when go() returns, result_ is the Result it returned and
\* exactly one look pose, one combined cloud and one line list (frame_locked)
\* are published, the last two made from that Result.
C9_OneFitterRunPerCycle ==
  fitterLog # << >> =>
    /\ Len(fitterLog) = 1
    /\ fitterLog[1].fitter.mOrigin = call.origin
    /\ fitterLog[1].fitter.mLookDir = call.lookDir
    /\ fitterLog[1].fitter.mCloud = call.inCloud
    /\ Returned =>
         LET hulls == CloudPtrs(fitterLog[1].go.result)
         IN /\ result_ = fitterLog[1].go.result
            /\ Len(Msgs("look_pose")) = 1
            /\ Msgs("look_pose")[1].position = call.origin
            /\ Msgs("hull_cloud") = << publishHullsAsCloud(hulls, 0, 0) >>
            /\ \E oob \in OutOfRangeChoices(hulls) :
                 Msgs("hull_markers") = publishHullsAsMarkers(hulls, 0, 0, oob).published
            /\ Msgs("hull_markers")[1].frame_locked

\* C9 witness: a cycle whose fitter returned two blocks, after which the four
\* messages are out.
C9_Witness ==
  /\ Returned
  /\ Len(fitterLog[1].go.result) = 2
  /\ Len(published) = 4
  /\ delivered.position = <<1, 2, 3>>

\* C10: for a look direction not parallel to world up, the three axes of the
\* look pose are pairwise orthogonal, each of norm 1, with z along the look
\* direction and x cross y along z.
C10_FrameIsRightHandedOrthonormal ==
  (call.lookDir[1] # 0 \/ call.lookDir[2] # 0) =>
    \A c \in 1..Len(Msgs("look_pose")) :
      LET x == Msgs("look_pose")[c].rotation[1]
          y == Msgs("look_pose")[c].rotation[2]
          z == Msgs("look_pose")[c].rotation[3]
      IN /\ IsUnit(x) /\ IsUnit(y) /\ IsUnit(z)
         /\ z.num = call.lookDir
         /\ Dot(x.num, y.num) = 0
         /\ Dot(y.num, z.num) = 0
         /\ Dot(z.num, x.num) = 0
         /\ Cross(Cross(x.num, y.num), z.num) = ZeroVec
         /\ Dot(Cross(x.num, y.num), z.num) > 0

\* C10 witness: a look pose was published for the look direction (1, 2, -1).
C10_Witness ==
  /\ call.lookDir = <<1, 2, -1>>
  /\ Len(Msgs("look_pose")) = 1

\* C11: publishHullsAsMarkers reads only the indices 0..n-1 of a hull of n
\* points, also when n = 0, and the marker's points and colors have the same
\* even length.
C11_MarkerReadsStayInRange ==
  /\ \A rd \in markerReads : rd.index \in 0..(rd.size - 1)
  /\ \A c \in 1..Len(Msgs("hull_markers")) :
       /\ Len(Msgs("hull_markers")[c].points) = Len(Msgs("hull_markers")[c].colors)
       /\ Len(Msgs("hull_markers")[c].points) % 2 = 0

====
